---- MODULE Spec2Model ----
(***************************************************************************)
(* Model of src/main.rs: the adjacency-list Graph (add_edge, bfs), the     *)
(* random graph generator and average_path_length.                         *)
(*                                                                         *)
(* A HashMap is a TLA+ function whose DOMAIN is its key set; a Vec or a    *)
(* VecDeque is a sequence.  The iteration order of a HashMap (keys(),      *)
(* values()) is unspecified in Rust and is a nondeterministic choice here. *)
(***************************************************************************)
EXTENDS Integers, Sequences, FiniteSets, TLC

\* Node identifiers are 0 .. NumNodes-1 (usize values in the program).
NumNodes == 3
\* At most MaxCalls add_edge calls / generator draws per graph.
MaxCalls == 3

Node == 0 .. (NumNodes - 1)

VARIABLES
    adj,            \* Graph.adj_list : HashMap<usize, Vec<usize>>
    calls,          \* history: the add_edge calls made so far, <<source, target>>
    draws,          \* history: the (source, target) pairs the generator drew
    gen_pc,         \* generate_random_graph: "none", "loop", "done", "panic"
    num_nodes,      \* generate_random_graph's argument
    num_edges,      \* generate_random_graph's argument
    gen_i,          \* iterations of `for _ in 0..num_edges` completed
    bfs_pc,         \* Graph::bfs: "idle", "loop", "done", "panic"
    start,          \* bfs's argument
    distances,      \* bfs's local HashMap<usize, usize>
    queue,          \* bfs's local VecDeque<usize>
    pushed,         \* history: every node push_back'ed, in order
    popped,         \* history: every node pop_front'ed
    ap_pc,          \* average_path_length: "idle", "loop", "done", "panic"
    nodes,          \* average_path_length's Vec of the keys
    ap_i,           \* elements of `nodes` already processed
    total_distance, \* average_path_length's accumulator
    path_count,     \* average_path_length's accumulator
    result,         \* the f64 returned by the last call, <<>> when there is none
    divided,        \* whether the last return evaluated the division
    prev            \* the result of the call before, on the same graph

graphVars == <<adj, calls>>
genVars   == <<draws, gen_pc, num_nodes, num_edges, gen_i>>
bfsVars   == <<bfs_pc, start, distances, queue, pushed, popped>>
apVars    == <<ap_pc, nodes, ap_i, total_distance, path_count, result, divided, prev>>
vars      == <<adj, calls, draws, gen_pc, num_nodes, num_edges, gen_i,
               bfs_pc, start, distances, queue, pushed, popped,
               ap_pc, nodes, ap_i, total_distance, path_count, result, divided, prev>>

\* The empty HashMap / no value.
Empty == <<>>

-----------------------------------------------------------------------------
(* Graph *)

\* Graph::new()
New == Empty

\* A faulty add_edge that also creates an (empty) entry for the target.
add_edge_target_entry(g, source, target) ==
    [k \in DOMAIN g \cup {source, target} |->
        IF k = source
        THEN Append(IF source \in DOMAIN g THEN g[source] ELSE <<>>, target)
        ELSE IF k \in DOMAIN g THEN g[k] ELSE <<>>]

\* A faulty add_edge that pushes the target at the front of the Vec.
add_edge_front(g, source, target) ==
    [k \in DOMAIN g \cup {source} |->
        IF k = source
        THEN <<target>> \o (IF source \in DOMAIN g THEN g[source] ELSE <<>>)
        ELSE g[k]]

\* self.adj_list.entry(source).or_insert_with(Vec::new).push(target)
add_edge(g, source, target) ==
    [k \in DOMAIN g \cup {source} |->
        IF k = source
        THEN Append(IF source \in DOMAIN g THEN g[source] ELSE <<>>, target)
        ELSE g[k]]

-----------------------------------------------------------------------------
(* Graph::bfs.  A bfs state is a record of the locals: distances, queue,   *)
(* the two histories, and failed (the index distances[&node] panicked).    *)

\* A faulty start that forgets distances.insert(start, 0).
BfsInitNoInsert(s) ==
    [distances |-> Empty, queue |-> <<s>>, pushed |-> <<s>>,
     popped |-> <<>>, failed |-> FALSE]

\* distances.insert(start, 0); queue.push_back(start)
BfsInit(s) ==
    [distances |-> (s :> 0), queue |-> <<s>>, pushed |-> <<s>>,
     popped |-> <<>>, failed |-> FALSE]

\* A faulty guard: the neighbor counts as new whenever it is not the start.
IsNewNoGuard(d, neighbor) == neighbor \notin DOMAIN d \/ d[neighbor] > 0

\* !distances.contains_key(&neighbor)
IsNew(d, neighbor) == neighbor \notin DOMAIN d

\* A faulty insert that records the hop count of the start, not of the node.
InsertDistanceFlat(d, neighbor, node) ==
    [k \in DOMAIN d \cup {neighbor} |-> IF k = neighbor THEN 1 ELSE d[k]]

\* distances.insert(neighbor, distances[&node] + 1)
InsertDistance(d, neighbor, node) ==
    [k \in DOMAIN d \cup {neighbor} |-> IF k = neighbor THEN d[node] + 1 ELSE d[k]]

\* The body of `for &neighbor in neighbors` for one neighbor.
Visit(st, node, neighbor) ==
    IF st.failed \/ ~IsNew(st.distances, neighbor)
    THEN st
    ELSE IF node \notin DOMAIN st.distances
         THEN [st EXCEPT !.failed = TRUE]
         ELSE [st EXCEPT !.distances = InsertDistance(@, neighbor, node),
                         !.queue = Append(@, neighbor),
                         !.pushed = Append(@, neighbor)]

\* for &neighbor in neighbors { ... }, from position i of the Vec.
RECURSIVE VisitAll(_, _, _, _)
VisitAll(st, node, neighbors, i) ==
    IF i > Len(neighbors)
    THEN st
    ELSE VisitAll(Visit(st, node, neighbors[i]), node, neighbors, i + 1)

\* One iteration of `while let Some(node) = queue.pop_front()`, queue non-empty.
BfsIter(g, st) ==
    LET node == Head(st.queue)
        st1  == [st EXCEPT !.queue = Tail(@), !.popped = Append(@, node)]
    IN  IF node \in DOMAIN g
        THEN VisitAll(st1, node, g[node], 1)
        ELSE st1

\* The whole loop, from a bfs state to the state in which the function returns
\* (or has panicked).
RECURSIVE BfsRun(_, _)
BfsRun(g, st) ==
    IF st.failed \/ st.queue = <<>>
    THEN st
    ELSE BfsRun(g, BfsIter(g, st))

\* graph.bfs(start), as average_path_length calls it.
bfs(g, s) == BfsRun(g, BfsInit(s))

-----------------------------------------------------------------------------
(* average_path_length *)

RECURSIVE GCD(_, _)
GCD(a, b) == IF b = 0 THEN a ELSE GCD(b, a % b)

\* The f64 value 0.0, as a fraction in lowest terms.
Zero == <<0, 1>>

\* A faulty division with the operands swapped.
DivSwapped(total, count) ==
    LET g == GCD(total, count) IN <<count \div g, total \div g>>

\* total_distance as f64 / path_count as f64: both conversions are exact for
\* the integers of the model and the quotient is the correctly rounded value of
\* the rational total/count, which the fraction in lowest terms identifies.
Div(total, count) ==
    LET g == GCD(total, count) IN <<total \div g, count \div g>>

\* The f64 value NaN (0.0 / 0.0).
NaN == <<0, 0>>

\* A faulty return without the path_count == 0 test.
AverageUnguarded(total, count) ==
    [value |-> IF count = 0 THEN NaN ELSE Div(total, count), divided |-> TRUE]

\* if path_count == 0 { 0.0 } else { total_distance as f64 / path_count as f64 }
Average(total, count) ==
    IF count = 0
    THEN [value |-> Zero, divided |-> FALSE]
    ELSE [value |-> Div(total, count), divided |-> TRUE]

\* A faulty accumulation that assigns instead of adding.
AccumulateAssign(acc, d) ==
    IF d > 0 THEN [total |-> d, count |-> acc.count + 1] ELSE acc

\* A faulty accumulation that also counts the zero distance of the source.
AccumulateAll(acc, d) ==
    [total |-> acc.total + d, count |-> acc.count + 1]

\* if d > 0 { total_distance += d; path_count += 1; }
Accumulate(acc, d) ==
    IF d > 0 THEN [total |-> acc.total + d, count |-> acc.count + 1] ELSE acc

\* for &d in distances.values() { ... }, the values visited in the order `order`
\* (a sequence of the keys), from position i.
RECURSIVE SumValues(_, _, _, _)
SumValues(acc, d, order, i) ==
    IF i > Len(order)
    THEN acc
    ELSE SumValues(Accumulate(acc, d[order[i]]), d, order, i + 1)

\* The orders in which a HashMap with key set S may be iterated.
Orders(S) ==
    {o \in [1 .. Cardinality(S) -> S] : \A i, j \in 1 .. Cardinality(S) : i # j => o[i] # o[j]}

-----------------------------------------------------------------------------
(* generate_random_graph *)

\* let nodes: Vec<usize> = (0..num_nodes).collect()
Range(n) == [i \in 1 .. n |-> i - 1]

\* nodes.choose(&mut rng): the values it may return; none for an empty slice
\* (choose returns None, and the unwrap panics).
Choose(v) == {v[i] : i \in 1 .. Len(v)}

\* A faulty test that keeps every drawn pair.
KeepAll(source, target) == TRUE

\* if source != target
Keep(source, target) == source # target

-----------------------------------------------------------------------------
Init ==
    /\ adj = New
    /\ calls = <<>>
    /\ draws = <<>>
    /\ gen_pc = "none"
    /\ num_nodes = 0
    /\ num_edges = 0
    /\ gen_i = 0
    /\ bfs_pc = "idle"
    /\ start = 0
    /\ distances = Empty
    /\ queue = <<>>
    /\ pushed = <<>>
    /\ popped = <<>>
    /\ ap_pc = "idle"
    /\ nodes = <<>>
    /\ ap_i = 0
    /\ total_distance = 0
    /\ path_count = 0
    /\ result = Empty
    /\ divided = FALSE
    /\ prev = Empty

\* The number of edges stored in a graph.
RECURSIVE SumLen(_, _)
SumLen(g, S) ==
    IF S = {} THEN 0
    ELSE LET k == CHOOSE x \in S : TRUE IN Len(g[k]) + SumLen(g, S \ {k})

EdgeCount(g) == SumLen(g, DOMAIN g)

Quiet == gen_pc = "none" /\ bfs_pc = "idle" /\ ap_pc = "idle"

\* graph.add_edge(source, target), called on a graph under construction
\* (from_edgelist, the tests), with the call recorded in the history.
AddEdgeLogged(source, target) ==
    /\ Quiet
    /\ Len(calls) < MaxCalls
    /\ adj' = add_edge(adj, source, target)
    /\ calls' = Append(calls, <<source, target>>)
    /\ UNCHANGED <<genVars, bfsVars, apVars>>

\* graph.add_edge(source, target) without the history; the results of earlier
\* analyses belong to the graph as it was.
AddEdge(source, target) ==
    /\ Quiet
    /\ EdgeCount(adj) < MaxCalls
    /\ adj' = add_edge(adj, source, target)
    /\ result' = Empty
    /\ prev' = Empty
    /\ divided' = FALSE
    /\ UNCHANGED <<calls, genVars, bfsVars, ap_pc, nodes, ap_i, total_distance, path_count>>

\* generate_random_graph(n, e): let mut graph = Graph::new(); ...
GenCall(n, e) ==
    /\ Quiet
    /\ calls = <<>>
    /\ adj = New
    /\ gen_pc' = "loop"
    /\ num_nodes' = n
    /\ num_edges' = e
    /\ gen_i' = 0
    /\ UNCHANGED <<graphVars, draws, bfsVars, apVars>>

\* One iteration of `for _ in 0..num_edges`.
GenDraw ==
    /\ gen_pc = "loop"
    /\ gen_i < num_edges
    /\ IF Choose(Range(num_nodes)) = {}
       THEN /\ gen_pc' = "panic"
            /\ UNCHANGED <<graphVars, draws, num_nodes, num_edges, gen_i>>
       ELSE \E source \in Choose(Range(num_nodes)), target \in Choose(Range(num_nodes)) :
            /\ draws' = Append(draws, <<source, target>>)
            /\ IF Keep(source, target)
               THEN /\ adj' = add_edge(adj, source, target)
                    /\ calls' = Append(calls, <<source, target>>)
               ELSE UNCHANGED graphVars
            /\ gen_i' = gen_i + 1
            /\ UNCHANGED <<gen_pc, num_nodes, num_edges>>
    /\ UNCHANGED <<bfsVars, apVars>>

\* The loop is over: the function returns the graph.
GenReturn ==
    /\ gen_pc = "loop"
    /\ gen_i = num_edges
    /\ gen_pc' = "done"
    /\ UNCHANGED <<graphVars, draws, num_nodes, num_edges, gen_i, bfsVars, apVars>>

\* graph.bfs(s): lines 47-51.
BfsCall(s) ==
    /\ Quiet
    /\ LET st == BfsInit(s) IN
        /\ distances' = st.distances
        /\ queue' = st.queue
        /\ pushed' = st.pushed
        /\ popped' = st.popped
    /\ start' = s
    /\ bfs_pc' = "loop"
    /\ UNCHANGED <<graphVars, genVars, apVars>>

\* One pass of the while loop: pop a node and visit its neighbors, or leave the
\* loop on an empty queue and return the distances.
BfsLoop ==
    /\ bfs_pc = "loop"
    /\ IF queue = <<>>
       THEN /\ bfs_pc' = "done"
            /\ UNCHANGED <<distances, queue, pushed, popped>>
       ELSE LET st == BfsIter(adj, [distances |-> distances, queue |-> queue,
                                    pushed |-> pushed, popped |-> popped,
                                    failed |-> FALSE]) IN
            /\ distances' = st.distances
            /\ queue' = st.queue
            /\ pushed' = st.pushed
            /\ popped' = st.popped
            /\ bfs_pc' = IF st.failed THEN "panic" ELSE "loop"
    /\ UNCHANGED <<graphVars, genVars, start, apVars>>

\* The caller drops the returned map.
BfsDrop ==
    /\ bfs_pc = "done"
    /\ bfs_pc' = "idle"
    /\ distances' = Empty
    /\ pushed' = <<>>
    /\ popped' = <<>>
    /\ UNCHANGED <<graphVars, genVars, start, queue, apVars>>

\* average_path_length(&graph): lines 87-89.  keys() yields the keys in an
\* order of the HashMap's choosing.
ApCall ==
    /\ Quiet
    /\ \E order \in Orders(DOMAIN adj) : nodes' = order
    /\ ap_i' = 0
    /\ total_distance' = 0
    /\ path_count' = 0
    /\ prev' = result
    /\ result' = Empty
    /\ divided' = FALSE
    /\ ap_pc' = "loop"
    /\ UNCHANGED <<graphVars, genVars, bfsVars>>

\* One iteration of `for &node in &nodes`: a bfs and the sum over its values,
\* visited in an order of the HashMap's choosing.
ApIter ==
    /\ ap_pc = "loop"
    /\ ap_i < Len(nodes)
    /\ LET st == bfs(adj, nodes[ap_i + 1]) IN
        IF st.failed
        THEN /\ ap_pc' = "panic"
             /\ UNCHANGED <<ap_i, total_distance, path_count>>
        ELSE \E order \in Orders(DOMAIN st.distances) :
             LET acc == SumValues([total |-> total_distance, count |-> path_count],
                                  st.distances, order, 1) IN
             /\ total_distance' = acc.total
             /\ path_count' = acc.count
             /\ ap_i' = ap_i + 1
             /\ ap_pc' = "loop"
    /\ UNCHANGED <<graphVars, genVars, bfsVars, nodes, result, divided, prev>>

\* Lines 101-105.
ApReturn ==
    /\ ap_pc = "loop"
    /\ ap_i = Len(nodes)
    /\ LET r == Average(total_distance, path_count) IN
        /\ result' = r.value
        /\ divided' = r.divided
    /\ ap_pc' = "done"
    /\ UNCHANGED <<graphVars, genVars, bfsVars, nodes, ap_i, total_distance, path_count, prev>>

\* The caller has the result; the function's locals are gone.
ApEnd ==
    /\ ap_pc = "done"
    /\ ap_pc' = "idle"
    /\ nodes' = <<>>
    /\ ap_i' = 0
    /\ total_distance' = 0
    /\ path_count' = 0
    /\ UNCHANGED <<graphVars, genVars, bfsVars, result, divided, prev>>

\* Building a graph call by call, and generating one; the call history is kept.
NextGraph ==
    \/ \E source, target \in Node : AddEdgeLogged(source, target)
    \/ \E n \in 0 .. NumNodes, e \in 0 .. MaxCalls : GenCall(n, e)
    \/ GenDraw
    \/ GenReturn

SpecGraph == Init /\ [][NextGraph]_vars

\* Building a graph and running bfs on it from any start node.
NextBfs ==
    \/ \E source, target \in Node : AddEdge(source, target)
    \/ \E s \in Node : BfsCall(s)
    \/ BfsLoop
    \/ BfsDrop

\* bfs runs on once called: the program is sequential and nothing suspends it.
SpecBfs == Init /\ [][NextBfs]_vars /\ WF_vars(BfsLoop)

\* Building a graph and averaging its path lengths, any number of times.
Next ==
    \/ \E source, target \in Node : AddEdge(source, target)
    \/ ApCall
    \/ ApIter
    \/ ApReturn
    \/ ApEnd

Spec == Init /\ [][Next]_vars

-----------------------------------------------------------------------------
(* What the claims speak of, stated without the program's code. *)

\* The elements of a sequence.
SetOf(q) == {q[i] : i \in 1 .. Len(q)}

\* The targets of the calls with source k, in call order.
RECURSIVE TargetsOf(_, _)
TargetsOf(cs, k) ==
    IF cs = <<>> THEN <<>>
    ELSE IF Head(cs)[1] = k
         THEN <<Head(cs)[2]>> \o TargetsOf(Tail(cs), k)
         ELSE TargetsOf(Tail(cs), k)

\* The directed edges of a graph.
Edges(g) == UNION {{<<k, g[k][i]>> : i \in 1 .. Len(g[k])} : k \in DOMAIN g}

\* The nodes of a graph: the endpoints of its edges.
NodesOf(g) == {e[1] : e \in Edges(g)} \cup {e[2] : e \in Edges(g)}

\* The nodes at the end of some walk of exactly n directed hops from s.
RECURSIVE Hop(_, _, _)
Hop(g, s, n) ==
    IF n = 0 THEN {s}
    ELSE LET before == Hop(g, s, n - 1)
         IN  {e[2] : e \in {f \in Edges(g) : f[1] \in before}}

\* A shortest path repeats no node, so it has at most this many hops.
MaxHops(g) == Cardinality(NodesOf(g))

\* The nodes reachable from s along directed edges, s included.
Reachable(g, s) == UNION {Hop(g, s, n) : n \in 0 .. MaxHops(g)}

\* The minimum number of directed hops from s to a reachable v.
MinHops(g, s, v) ==
    CHOOSE n \in 0 .. MaxHops(g) :
        /\ v \in Hop(g, s, n)
        /\ \A m \in 0 .. (n - 1) : v \notin Hop(g, s, m)

\* The ordered pairs (source, node) that average_path_length is to measure:
\* the source a key, the node reachable from it at a distance above zero.
Pairs(g) ==
    UNION {{<<s, v>> : v \in {w \in Reachable(g, s) : MinHops(g, s, w) > 0}} : s \in DOMAIN g}

RECURSIVE SumHops(_, _)
SumHops(g, P) ==
    IF P = {} THEN 0
    ELSE LET p == CHOOSE x \in P : TRUE
         IN  MinHops(g, p[1], p[2]) + SumHops(g, P \ {p})

-----------------------------------------------------------------------------
(* Graph construction, under SpecGraph *)

\* C4: after any sequence of add_edge calls the keys are the sources called
\* and each key's neighbor sequence is exactly the targets of the calls with
\* that source, in call order: every call appended at the end, nothing was
\* deduplicated or rejected, and no other sequence changed.
C4_NeighborsAreCallsInOrder ==
    /\ \A k \in DOMAIN adj : adj[k] = TargetsOf(calls, k)
    /\ \A i \in 1 .. Len(calls) : calls[i][1] \in DOMAIN adj
    /\ (calls = <<<<1, 2>>, <<1, 0>>>> => adj = (1 :> <<2, 0>>))

\* C4's case: a duplicate edge and a self-loop among three calls with one
\* source, kept in call order.
C4_Witness ==
    /\ calls = <<<<1, 2>>, <<1, 1>>, <<1, 2>>>>
    /\ adj = (1 :> <<2, 1, 2>>)

\* C6: a node is a key iff it was the source of some add_edge call; every
\* key's neighbor sequence is non-empty; a node seen only as a target is no key.
C6_KeysAreSources ==
    /\ DOMAIN adj = {calls[i][1] : i \in 1 .. Len(calls)}
    /\ \A k \in DOMAIN adj : Len(adj[k]) > 0
    /\ \A n \in Node :
        (/\ \E i \in 1 .. Len(calls) : calls[i][2] = n
         /\ \A i \in 1 .. Len(calls) : calls[i][1] # n) => n \notin DOMAIN adj

\* C6's case: some call's target is not a key.
C6_Witness ==
    /\ Len(calls) = MaxCalls
    /\ \E i \in 1 .. Len(calls) : calls[i][2] \notin DOMAIN adj

\* The draws whose source differs from its target.
KeptDraws == {i \in 1 .. Len(draws) : draws[i][1] # draws[i][2]}

\* C7: the graph generate_random_graph returns has no self-loop, has every
\* endpoint in [0, num_nodes), and stores as many edges as there were draws
\* with source # target among the num_edges draws, hence at most num_edges.
C7_GeneratedGraph ==
    gen_pc = "done" =>
        /\ \A e \in Edges(adj) : e[1] # e[2]
        /\ \A e \in Edges(adj) : e[1] \in 0 .. (num_nodes - 1) /\ e[2] \in 0 .. (num_nodes - 1)
        /\ Len(draws) = num_edges
        /\ EdgeCount(adj) = Cardinality(KeptDraws)
        /\ EdgeCount(adj) <= num_edges

\* C7's case: a generated graph where a self-loop draw was skipped, so that
\* fewer than num_edges edges are stored.
C7_Witness ==
    /\ gen_pc = "done"
    /\ EdgeCount(adj) > 0
    /\ EdgeCount(adj) < num_edges

\* C8: generate_random_graph never fails, whatever num_nodes and num_edges.
C8_GeneratorNeverFails == gen_pc # "panic"

-----------------------------------------------------------------------------
(* Graph::bfs, under SpecBfs *)

\* C1: bfs(start) returns a map whose keys are exactly the nodes reachable
\* from start (start included, at 0) and whose value at v is the minimum
\* number of directed hops from start to v; unreachable nodes have no entry.
C1_BfsShortestHops ==
    bfs_pc = "done" =>
        /\ DOMAIN distances = Reachable(adj, start)
        /\ distances[start] = 0
        /\ \A v \in DOMAIN distances : distances[v] = MinHops(adj, start, v)
        /\ (adj = (0 :> <<1>> @@ 1 :> <<2>>) /\ start = 0
              => distances = (0 :> 0 @@ 1 :> 1 @@ 2 :> 2))

\* C1's case: bfs has returned on a graph where a node is one hop from start
\* and also two hops from it by another path.
C1_Witness ==
    /\ bfs_pc = "done"
    /\ \E u, v \in Node \ {start} :
        /\ u # v
        /\ <<start, u>> \in Edges(adj)
        /\ <<u, v>> \in Edges(adj)
        /\ <<start, v>> \in Edges(adj)
        /\ distances[v] = 1

\* No node occurs twice in a sequence.
NoDup(q) == \A i, j \in 1 .. Len(q) : i # j => q[i] # q[j]

\* C9 (safety, states): while bfs runs no node has been enqueued twice, and
\* at the head of the loop the queue is empty exactly when every node
\* reachable from start has been dequeued and expanded; when bfs returns the
\* queue is empty and the reachable nodes are the keys of the map.
C9_State ==
    /\ NoDup(pushed)
    /\ bfs_pc = "loop" =>
        /\ SetOf(pushed) = DOMAIN distances
        /\ SetOf(popped) \cup SetOf(queue) = SetOf(pushed)
        /\ (queue = <<>> <=> SetOf(popped) = Reachable(adj, start))
    /\ bfs_pc = "done" =>
        /\ queue = <<>>
        /\ SetOf(popped) = Reachable(adj, start)
        /\ DOMAIN distances = Reachable(adj, start)

\* C9 (safety, steps): within a run a recorded distance is never overwritten
\* and the nodes a step enqueues are exactly those it inserts into the map.
C9_Step ==
    (bfs_pc = "loop") =>
        /\ \A v \in DOMAIN distances :
            v \in DOMAIN distances' /\ distances'[v] = distances[v]
        /\ Len(pushed') >= Len(pushed)
        /\ SubSeq(pushed', 1, Len(pushed)) = pushed
        /\ {pushed'[i] : i \in (Len(pushed) + 1) .. Len(pushed')}
              = DOMAIN distances' \ DOMAIN distances

\* C9: on every graph, cycles, self-loops and duplicate edges included, bfs
\* terminates; each node is enqueued at most once, only when it is first
\* inserted into the distance map, whose entries are never overwritten; the
\* loop ends with an empty queue exactly when every reachable node was visited.
C9_BfsTerminates ==
    /\ []C9_State
    /\ [][C9_Step]_vars
    /\ (bfs_pc = "loop") ~> (bfs_pc = "done")

\* C9's case: bfs has returned on a graph with a self-loop at start, a cycle
\* through start and a duplicate edge.
C9_Witness ==
    /\ bfs_pc = "done"
    /\ \E v \in Node \ {start} :
        /\ start \in DOMAIN adj /\ v \in DOMAIN adj
        /\ \E i, j \in 1 .. Len(adj[start]) : i # j /\ adj[start][i] = v /\ adj[start][j] = v
        /\ <<v, start>> \in Edges(adj)
        /\ popped = <<start, v>>

\* C10 (states): bfs has not panicked, and every node in the queue, and every
\* node dequeued, is a key of the distance map.
C10_State ==
    /\ bfs_pc # "panic"
    /\ \A i \in 1 .. Len(queue) : queue[i] \in DOMAIN distances
    /\ \A i \in 1 .. Len(popped) : popped[i] \in DOMAIN distances

\* C10 (steps): a dequeued node that is no key of the adjacency map is
\* treated as having no neighbors: nothing is inserted or enqueued.
C10_Step ==
    (bfs_pc = "loop" /\ queue # <<>> /\ Head(queue) \notin DOMAIN adj) =>
        /\ bfs_pc' = "loop"
        /\ distances' = distances
        /\ queue' = Tail(queue)

\* C10: bfs has no failure mode: every queued node is already a key of the
\* distance map, so distances[&node] never fails, also for a dequeued node
\* that is no key of the adjacency map.
C10_BfsNeverFails == []C10_State /\ [][C10_Step]_vars

\* C10's case: a sink (no key of the adjacency map) other than start has been
\* dequeued and the loop goes on.
C10_Witness ==
    /\ bfs_pc = "loop"
    /\ Len(popped) >= 2
    /\ popped[Len(popped)] \notin DOMAIN adj
    /\ queue # <<>>

-----------------------------------------------------------------------------
(* average_path_length, under Spec *)

\* C2: average_path_length returns total/count, the sources being exactly
\* the keys of the adjacency map, total the sum of the positive distances
\* bfs finds from them and count their number (when there are any).
C2_AverageIsTotalOverCount ==
    /\ ap_pc \in {"loop", "done"} => SetOf(nodes) = DOMAIN adj /\ Len(nodes) = Cardinality(DOMAIN adj)
    /\ ap_pc = "done" =>
        LET P == Pairs(adj) IN
        P # {} =>
            /\ total_distance = SumHops(adj, P)
            /\ path_count = Cardinality(P)
            /\ result[2] > 0
            /\ result[1] * path_count = total_distance * result[2]
    /\ (ap_pc = "done" /\ adj = (0 :> <<1>> @@ 1 :> <<2>>)) => result = <<4, 3>>

\* C2's case: the two-edge path 0->1, 1->2 has been averaged: (1+2+1)/3.
C2_Witness ==
    /\ ap_pc = "done"
    /\ adj = (0 :> <<1>> @@ 1 :> <<2>>)
    /\ total_distance = 4
    /\ path_count = 3

\* C3: average_path_length returns exactly 0.0, without dividing, when no
\* positive distance exists: on the empty graph and on a graph where no key
\* reaches a node other than itself.
C3_ZeroWithoutDivision ==
    (ap_pc = "done" /\ \A s \in DOMAIN adj : Reachable(adj, s) = {s}) =>
        /\ path_count = 0
        /\ result = Zero
        /\ ~divided

\* C3's case: a non-empty graph of self-loops only has been averaged.
C3_Witness ==
    /\ ap_pc = "done"
    /\ Cardinality(DOMAIN adj) >= 2
    /\ \A e \in Edges(adj) : e[1] = e[2]
    /\ result = Zero

\* C5 (states): a call's result equals the result of the call before it on
\* the same graph, whatever the orders in which keys and values were visited.
C5_State == (ap_pc = "done" /\ prev # Empty) => result = prev

\* C5 (steps): no step of average_path_length changes the adjacency map.
C5_Step == (ap_pc # "idle" \/ ap_pc' # "idle") => adj' = adj

\* C5: calling average_path_length twice without mutating the graph yields
\* identical results and leaves the adjacency map unchanged, independently of
\* the iteration order of the keys and of a distance map's values.
C5_Idempotent == []C5_State /\ [][C5_Step]_vars

\* C5's case: a second call has returned on a graph with several sources and
\* several positive distances, so that the orders could matter.
C5_Witness ==
    /\ ap_pc = "done"
    /\ prev # Empty
    /\ Len(nodes) >= 2
    /\ path_count >= 3
    /\ result = prev

====
